---- MODULE Spec2Model ----
(***************************************************************************)
(* Model of the last-value accumulator of the Prometheus exporter          *)
(* (exporter/prometheusexporter/accumulator.go).                           *)
(*                                                                         *)
(* Strings are sequences of one-character strings, so that concatenation   *)
(* and the delimiter '*' of timeseriesSignature are modelled as they are   *)
(* computed.  The synchronised map registeredMetrics is a set of           *)
(* <<key, value>> pairs with atomic Load, Store and Delete; every          *)
(* Load/Store pair of a merge policy and every step of the Range callback  *)
(* of Collect is a separate action, so calls interleave as goroutines do.  *)
(***************************************************************************)
EXTENDS Integers, Sequences, FiniteSets, TLC

----------------------------------------------------------------------------
(* Strings *)

\* byte value of the characters used in the model ('*' sorts before letters)
CharOrd(c) ==
  CASE c = "*" -> 42
    [] c = "a" -> 97
    [] c = "b" -> 98
    [] OTHER -> 127

\* s < t in Go's string order (bytewise lexicographic)
RECURSIVE StrLess(_, _)
StrLess(s, t) ==
  IF t = <<>> THEN FALSE
  ELSE IF s = <<>> THEN TRUE
  ELSE IF CharOrd(Head(s)) # CharOrd(Head(t)) THEN CharOrd(Head(s)) < CharOrd(Head(t))
  ELSE StrLess(Tail(s), Tail(t))

\* pdata.MetricDataType.String()
DataTypeString(kind) ==
  CASE kind = "Gauge" -> <<"G", "a", "u", "g", "e">>
    [] kind = "Sum" -> <<"S", "u", "m">>
    [] kind = "Histogram" -> <<"H", "i", "s", "t", "o", "g", "r", "a", "m">>
    [] kind = "Summary" -> <<"S", "u", "m", "m", "a", "r", "y">>
    [] OTHER -> <<"N", "o", "n", "e">>

\* an attribute value of string type
StringValue(s) == [type |-> "STRING", stringVal |-> s]

\* pdata.AttributeValueToString, for values of string type
AttributeValueToString(v) == v.stringVal

\* insert the pair kv into a sequence of pairs sorted by key, after the
\* pairs whose key is not greater (stable)
RECURSIVE SortInsert(_, _)
SortInsert(sorted, kv) ==
  IF sorted = <<>> THEN <<kv>>
  ELSE IF StrLess(kv[1], Head(sorted)[1]) THEN <<kv>> \o sorted
  ELSE <<Head(sorted)>> \o SortInsert(Tail(sorted), kv)

AttrSortNone(attributes) == attributes

\* pdata.AttributeMap.Sort: the pairs ordered by key
RECURSIVE AttrSort(_)
AttrSort(attributes) ==
  IF attributes = <<>> THEN <<>>
  ELSE SortInsert(AttrSort(SubSeq(attributes, 1, Len(attributes) - 1)),
                  attributes[Len(attributes)])

\* the Range callback of timeseriesSignature over the sorted attributes
RECURSIVE WriteAttrs(_)
WriteAttrs(sorted) ==
  IF sorted = <<>> THEN <<>>
  ELSE <<"*">> \o Head(sorted)[1] \o <<"*">> \o AttributeValueToString(Head(sorted)[2])
       \o WriteAttrs(Tail(sorted))

timeseriesSignatureNoKind(ilmName, metric, attributes) ==
  (<<"*">> \o ilmName) \o (<<"*">> \o metric.name) \o WriteAttrs(AttrSort(attributes))

timeseriesSignatureNoScope(ilmName, metric, attributes) ==
  DataTypeString(metric.dataType) \o (<<"*">> \o metric.name)
    \o WriteAttrs(AttrSort(attributes))

timeseriesSignature(ilmName, metric, attributes) ==
  DataTypeString(metric.dataType) \o (<<"*">> \o ilmName) \o (<<"*">> \o metric.name)
    \o WriteAttrs(AttrSort(attributes))

----------------------------------------------------------------------------
(* Bounds and input sets *)

\* the wall clock runs from 0 to MaxNow
MaxNow == 2
\* datapoints delivered to Accumulate in one behaviour, over all batches
MaxPoints == 3
\* distinct metrics (kind, name, temporality) delivered in one behaviour
MaxSeries == 2

\* the goroutines that call Accumulate
Workers == {"w1", "w2"}
Kinds == {"Gauge", "Sum", "Histogram", "Summary", "None"}
ScopeNames == {<<"s">>}
MetricNames == {<<"a">>}
Timestamps == {1, 2}
AttrSets == { << <<<<"b">>, StringValue(<<"b">>)>>, <<<<"a">>, StringValue(<<"a">>)>> >> }

\* Sum and Histogram carry an aggregation temporality; the other kinds none
Temporalities(kind) ==
  IF kind \in {"Sum", "Histogram"} THEN {"Cumulative", "Delta"} ELSE {"Unspecified"}

\* the metrics a batch may hold, without their datapoints
Metrics ==
  UNION { [name : MetricNames, dataType : {k}, temporality : Temporalities(k)] : k \in Kinds }

\* the datapoints a metric may hold.  No line of the accumulator reads the
\* value of a datapoint, so the k-th datapoint delivered carries the value k:
\* any two datapoints differ in their value.
DataPoints(k) == [attributes : AttrSets, ts : Timestamps, val : {k}]

\* lastValueAccumulator.metricExpiration, in clock units
metricExpiration == 1

\* the arguments of timeseriesSignature when it is applied on its own:
\* strings with and without the delimiter, at most MaxAttrs attributes
MaxAttrs == 2
SigKinds == {"Sum", "Summary"}
SigStrings == {<<>>, <<"a">>, <<"*">>}
SigKeys == {<<"a">>, <<"b">>}

\* the attribute maps of n entries with different keys, in insertion order
RECURSIVE AttrSeqs(_)
AttrSeqs(n) ==
  IF n = 0 THEN {<<>>}
  ELSE { Append(at, <<k, StringValue(v)>>) :
           at \in {a \in AttrSeqs(n - 1) : Len(a) = n - 1},
           k \in SigKeys, v \in SigStrings }
       \cup AttrSeqs(n - 1)

DistinctKeys(at) == \A i, j \in 1..Len(at) : i # j => at[i][1] # at[j][1]

SigInputs ==
  [il : SigStrings,
   metric : [name : SigStrings, dataType : SigKinds],
   attributes : {at \in AttrSeqs(MaxAttrs) : DistinctKeys(at)}]

----------------------------------------------------------------------------
(* State *)

VARIABLES
  registeredMetrics,  \* the sync.Map: a set of <<signature, accumulatedValue>>
  clock,              \* time.Now()
  acc,                \* acc[w]: the Accumulate call of goroutine w
  col,                \* the Collect call of the exporter goroutine
  delivered,          \* datapoints delivered to Accumulate so far
  series,             \* the metrics the receivers deliver in this behaviour
  nonCumulative,      \* history: the datapoints delivered in a Sum or Histogram
                      \* metric whose temporality is not cumulative
  evicted,            \* history: the signatures Collect deleted and no
                      \* Accumulate stored since
  watch,              \* whether hist is recorded in this behaviour
  hist,               \* history: the contents the map had during the Collect
                      \* call in progress
  sigIn,              \* two arguments of timeseriesSignature
  sigOut,             \* their signatures, once computed
  seen                \* history, where it is kept: the datapoints that went
                      \* through their store-or-drop step, with their signature
                      \* and the time their Accumulate call read

vars == <<registeredMetrics, clock, acc, col, delivered, series, nonCumulative,
          evicted, watch, hist, sigIn, sigOut, seen>>

NoValue == [none |-> TRUE]
NoMetric == [none |-> TRUE]
NoPoint == [none |-> TRUE]
NoResult == [none |-> TRUE]
NoKey == <<>>

\* sync.Map.Load
MapLoad(m, key) ==
  IF \E p \in m : p[1] = key
  THEN [ok |-> TRUE, v |-> (CHOOSE p \in m : p[1] = key)[2]]
  ELSE [ok |-> FALSE, v |-> NoValue]

\* sync.Map.Store
MapStoreOnly(m, key, value) == {<<key, value>>}
MapStoreAdd(m, key, value) == m \cup {<<key, value>>}
MapStore(m, key, value) == {p \in m : p[1] # key} \cup {<<key, value>>}

\* sync.Map.Delete
MapDeleteNothing(m, key) == m
MapDelete(m, key) == {p \in m : p[1] # key}

MapKeys(m) == {p[1] : p \in m}

\* every signature the metrics of the set ms can produce
Signatures(ms) ==
  { timeseriesSignature(il, mt, at) : il \in ScopeNames, mt \in ms, at \in AttrSets }

createMetric(metric) ==
  [name |-> metric.name, dataType |-> metric.dataType,
   temporality |-> "Unspecified", dps |-> <<>>]

\* ip.CopyTo(m.<Kind>().DataPoints().AppendEmpty())
CopyToTwice(ip, m) == [m EXCEPT !.dps = Append(Append(@, ip), ip)]
CopyTo(ip, m) == [m EXCEPT !.dps = Append(@, ip)]

SetAggregationTemporality(m, t) == [m EXCEPT !.temporality = t]

\* &accumulatedValue{value: m, instrumentationLibrary: il, updated: now}
accumulatedValueNoTime(m, il, now) ==
  [value |-> m, instrumentationLibrary |-> il, updated |-> 0]
accumulatedValue(m, il, now) ==
  [value |-> m, instrumentationLibrary |-> il, updated |-> now]

\* t.Before(u) and t.After(u) of package time
BeforeOrEqual(t, u) == t <= u
Before(t, u) == t < u
AfterOrEqual(t, u) == t >= u
AfterSwapped(t, u) == u > t
After(t, u) == t > u

\* the metric each policy stores for datapoint ip; ok is the result of the Load
GaugeMetric(metric, ip, ok) == CopyTo(ip, createMetric(metric))

SumMetric(metric, ip, ok) ==
  CopyTo(ip, SetAggregationTemporality(createMetric(metric), "Cumulative"))

HistogramMetric(metric, ip, ok) ==
  IF ~ok THEN CopyTo(ip, createMetric(metric))
  ELSE SetAggregationTemporality(CopyTo(ip, createMetric(metric)), "Cumulative")

SummaryMetric(metric, ip, ok) == CopyTo(ip, createMetric(metric))

NewMetric(metric, ip, ok) ==
  CASE metric.dataType = "Gauge" -> GaugeMetric(metric, ip, ok)
    [] metric.dataType = "Sum" -> SumMetric(metric, ip, ok)
    [] metric.dataType = "Histogram" -> HistogramMetric(metric, ip, ok)
    [] metric.dataType = "Summary" -> SummaryMetric(metric, ip, ok)

\* the stale tests: the incoming timestamp is before that of the first
\* datapoint of the metric that was loaded
GaugeStaleOrEqual(ip, ld) == ld.ok /\ ~Before(ld.v.value.dps[1].ts, ip.ts)
GaugeStale(ip, ld) == ld.ok /\ Before(ip.ts, ld.v.value.dps[1].ts)
SumStaleNever(ip, ld) == FALSE
SumStale(ip, ld) == ld.ok /\ Before(ip.ts, ld.v.value.dps[1].ts)
HistogramStale(ip, ld) == ld.ok /\ Before(ip.ts, ld.v.value.dps[1].ts)
SummaryStaleOrEqual(ip, ld) == ld.ok /\ ~Before(ld.v.value.dps[1].ts, ip.ts)
SummaryStale(ip, ld) == ld.ok /\ Before(ip.ts, ld.v.value.dps[1].ts)

StalePoint(metric, ip, ld) ==
  CASE metric.dataType = "Gauge" -> GaugeStale(ip, ld)
    [] metric.dataType = "Sum" -> SumStale(ip, ld)
    [] metric.dataType = "Histogram" -> HistogramStale(ip, ld)
    [] metric.dataType = "Summary" -> SummaryStale(ip, ld)

\* the n++ of the branch that stores; ok is the result of the Load
StoreCountReplaced(metric, ok) == IF ok THEN 1 ELSE 0
StoreCount(metric, ok) == 1

\* the temporality gates of accumulateSum and accumulateDoubleHistogram
SumNeverDropped(metric) == FALSE
SumDropped(metric) == metric.temporality # "Cumulative"
HistogramDropped(metric) == metric.temporality # "Cumulative"

\* whether the type switch of addMetric has a case for the kind of the metric
Supported(metric) == metric.dataType \in {"Gauge", "Sum", "Histogram", "Summary"}

\* whether addMetric hands the metric to a policy that loops over datapoints
DispatchedAlways(metric) == TRUE
Dispatched(metric) ==
  CASE metric.dataType = "Gauge" -> TRUE
    [] metric.dataType = "Sum" -> ~SumDropped(metric)
    [] metric.dataType = "Histogram" -> ~HistogramDropped(metric)
    [] metric.dataType = "Summary" -> TRUE
    [] OTHER -> FALSE

\* did, stored: history of the call (what became of its latest datapoint or
\* of its latest metric when that had no case in the type switch, the number
\* of its Store calls); id: the value of the next datapoint
IdleAcc == [pc |-> "idle", now |-> 0, n |-> 0, il |-> <<>>,
            metric |-> NoMetric, left |-> 0, id |-> 0, ip |-> NoPoint,
            signature |-> NoKey,
            ld |-> [ok |-> FALSE, v |-> NoValue], stored |-> 0, did |-> "none"]

\* keys, start, alone, last: history of the call (the signatures of res, the
\* map when the call began, whether no Accumulate call overlapped it, the
\* result of the call before it when nothing happened in between)
IdleCol == [pc |-> "idle", expirationTime |-> 0, visited |-> {}, key |-> NoKey,
            res |-> <<>>, keys |-> <<>>, start |-> {}, alone |-> FALSE,
            last |-> NoResult]

NoSeen == [on |-> FALSE, pts |-> {}]

InitWith(ws, ms, w, sn) ==
  /\ registeredMetrics = {}
  /\ clock = 0
  /\ acc = [x \in ws |-> IdleAcc]
  /\ col = IdleCol
  /\ delivered = 0
  /\ series \in ms
  /\ nonCumulative = {}
  /\ evicted = {}
  /\ watch = w
  /\ hist = {}
  /\ sigIn = <<>>
  /\ sigOut = <<>>
  /\ seen = sn

\* one goroutine calls Accumulate, one calls Collect
Init ==
  InitWith({"w1"}, {ms \in SUBSET Metrics : Cardinality(ms) \in 1..MaxSeries}, FALSE, NoSeen)

\* hist' for a step to col' and registeredMetrics'
Observe ==
  hist' = IF watch /\ col'.pc # "idle"
          THEN (IF col.pc = "idle" THEN {} ELSE hist) \cup {registeredMetrics'}
          ELSE {}

----------------------------------------------------------------------------
(* Accumulate *)

\* Accumulate is called: now := time.Now(), n = 0
Accumulate(w) ==
  /\ acc[w].pc = "idle"
  /\ acc' = [acc EXCEPT ![w] = [IdleAcc EXCEPT !.pc = "Accumulate", !.now = clock]]
  /\ col' = [col EXCEPT !.alone = FALSE, !.start = {}, !.last = NoResult]
  /\ UNCHANGED <<registeredMetrics, clock, delivered, series, nonCumulative,
                 evicted, watch, sigIn, sigOut, seen>>
  /\ Observe

\* the loops of Accumulate reach the next metric, which carries ndps
\* datapoints, and addMetric dispatches on its kind; a metric of an
\* unsupported kind, a non-cumulative Sum or Histogram and a metric without
\* datapoints add 0
addMetric(w) ==
  /\ acc[w].pc = "Accumulate"
  /\ \E il \in ScopeNames, metric \in series, ndps \in 0..(MaxPoints - delivered) :
       /\ LET did == IF Supported(metric) THEN "none" ELSE "unsupported"
          IN acc' = [acc EXCEPT ![w] =
                       IF Dispatched(metric) /\ ndps > 0
                       THEN [@ EXCEPT !.pc = "DataPoints", !.il = il, !.metric = metric,
                                      !.left = ndps, !.id = delivered + 1, !.did = did]
                       ELSE [@ EXCEPT !.did = did]]
       /\ delivered' = delivered + ndps
       /\ nonCumulative' =
            IF metric.dataType \in {"Sum", "Histogram"} /\ metric.temporality # "Cumulative"
            THEN nonCumulative \cup ((delivered + 1)..(delivered + ndps))
            ELSE nonCumulative
  /\ UNCHANGED <<registeredMetrics, clock, col, series, evicted, watch, sigIn, sigOut, seen>>
  /\ Observe

\* one datapoint of the metric: its signature is computed and looked up
PolicyLoad(w, kind) ==
  /\ acc[w].pc = "DataPoints"
  /\ acc[w].metric.dataType = kind
  /\ \E ip \in DataPoints(acc[w].id) :
       LET signature == timeseriesSignature(acc[w].il, acc[w].metric, ip.attributes)
       IN acc' = [acc EXCEPT ![w].pc = "Loaded", ![w].ip = ip, ![w].did = "none",
                             ![w].signature = signature,
                             ![w].ld = MapLoad(registeredMetrics, signature)]
  /\ UNCHANGED <<registeredMetrics, clock, col, delivered, series, nonCumulative,
                 evicted, watch, sigIn, sigOut, seen>>
  /\ Observe

\* what becomes of datapoint ip after the Load ld
Outcome(metric, ip, ld) ==
  IF StalePoint(metric, ip, ld) THEN "stale"
  ELSE IF ~ld.ok THEN "first"
  ELSE IF ip.ts = ld.v.value.dps[1].ts THEN "equal"
  ELSE "later"

\* the datapoint is dropped as stale or stored; then the next datapoint, or
\* back to the loop of Accumulate
PolicyStore(w, kind) ==
  /\ acc[w].pc = "Loaded"
  /\ acc[w].metric.dataType = kind
  /\ LET a == acc[w]
         signature == a.signature
         stale == StalePoint(a.metric, a.ip, a.ld)
         m == NewMetric(a.metric, a.ip, a.ld.ok)
         value == accumulatedValue(m, a.il, a.now)
         last == a.left = 1
         next == [a EXCEPT !.pc = IF last THEN "Accumulate" ELSE "DataPoints",
                           !.left = @ - 1,
                           !.id = IF last THEN 0 ELSE @ + 1,
                           !.il = IF last THEN <<>> ELSE @,
                           !.metric = IF last THEN NoMetric ELSE @,
                           !.ip = NoPoint,
                           !.signature = NoKey,
                           !.ld = [ok |-> FALSE, v |-> NoValue],
                           !.did = Outcome(a.metric, a.ip, a.ld)]
     IN IF stale
        THEN /\ acc' = [acc EXCEPT ![w] = next]
             /\ UNCHANGED <<registeredMetrics, evicted>>
        ELSE /\ registeredMetrics' = MapStore(registeredMetrics, signature, value)
             /\ acc' = [acc EXCEPT ![w] =
                          [next EXCEPT !.n = @ + StoreCount(a.metric, a.ld.ok),
                                       !.stored = @ + 1]]
             /\ evicted' = evicted \ {signature}
  /\ seen' = IF seen.on
             THEN [seen EXCEPT !.pts = @ \cup {<<acc[w].signature, acc[w].ip,
                                                  acc[w].now>>}]
             ELSE seen
  /\ UNCHANGED <<clock, col, delivered, series, nonCumulative, watch, sigIn, sigOut>>
  /\ Observe

accumulateGauge(w) == PolicyLoad(w, "Gauge") \/ PolicyStore(w, "Gauge")
accumulateSum(w) == PolicyLoad(w, "Sum") \/ PolicyStore(w, "Sum")
accumulateDoubleHistogram(w) == PolicyLoad(w, "Histogram") \/ PolicyStore(w, "Histogram")
accumulateSummary(w) == PolicyLoad(w, "Summary") \/ PolicyStore(w, "Summary")

\* Accumulate returns n
AccumulateReturn(w) ==
  /\ acc[w].pc = "Accumulate"
  /\ acc' = [acc EXCEPT ![w] = IdleAcc]
  /\ UNCHANGED <<registeredMetrics, clock, col, delivered, series, nonCumulative,
                 evicted, watch, sigIn, sigOut, seen>>
  /\ Observe

----------------------------------------------------------------------------
(* Collect *)

\* Collect is called: expirationTime := time.Now().Add(-a.metricExpiration)
Collect ==
  /\ col.pc = "idle"
  /\ LET alone == \A w \in DOMAIN acc : acc[w].pc = "idle"
     IN col' = [IdleCol EXCEPT !.pc = "Range",
                               !.expirationTime = clock - metricExpiration,
                               !.alone = alone,
                               !.start = IF alone THEN registeredMetrics ELSE {},
                               !.last = col.last]
  /\ UNCHANGED <<registeredMetrics, clock, acc, delivered, series, nonCumulative,
                 evicted, watch, sigIn, sigOut, seen>>
  /\ Observe

\* Range reaches a key it has not visited.  A key without a mapping at this
\* moment is passed over.  Otherwise the callback reads the value: if it is
\* not expired its metric is appended to res, if it is the callback goes on
\* to Delete.
CollectRange ==
  /\ col.pc = "Range"
  /\ \E key \in Signatures(series) \ col.visited :
       LET ld == MapLoad(registeredMetrics, key)
       IN col' =
            IF ~ld.ok THEN [col EXCEPT !.visited = @ \cup {key}]
            ELSE IF After(col.expirationTime, ld.v.updated)
            THEN [col EXCEPT !.visited = @ \cup {key}, !.pc = "Delete", !.key = key]
            ELSE [col EXCEPT !.visited = @ \cup {key}, !.res = Append(@, ld.v.value),
                             !.keys = Append(@, key)]
  /\ UNCHANGED <<registeredMetrics, clock, acc, delivered, series, nonCumulative,
                 evicted, watch, sigIn, sigOut, seen>>
  /\ Observe

\* a.registeredMetrics.Delete(key) of the callback
CollectDelete ==
  /\ col.pc = "Delete"
  /\ registeredMetrics' = MapDelete(registeredMetrics, col.key)
  /\ col' = [col EXCEPT !.pc = "Range", !.key = NoKey]
  /\ evicted' = evicted \cup {col.key}
  /\ UNCHANGED <<clock, acc, delivered, series, nonCumulative, watch, sigIn, sigOut, seen>>
  /\ Observe

\* Range has passed every key; Collect returns res
CollectReturn ==
  /\ col.pc = "Range"
  /\ col.visited = Signatures(series)
  /\ col' = [IdleCol EXCEPT !.last =
                IF col.alone
                THEN [res |-> col.res, expirationTime |-> col.expirationTime]
                ELSE NoResult]
  /\ UNCHANGED <<registeredMetrics, clock, acc, delivered, series, nonCumulative,
                 evicted, watch, sigIn, sigOut, seen>>
  /\ Observe

\* time passes
Tick ==
  /\ clock < MaxNow
  /\ clock' = clock + 1
  /\ UNCHANGED <<registeredMetrics, acc, col, delivered, series, nonCumulative,
                 evicted, watch, sigIn, sigOut, seen>>
  /\ Observe

Next ==
  \/ \E w \in DOMAIN acc :
       \/ Accumulate(w)
       \/ addMetric(w)
       \/ accumulateGauge(w)
       \/ accumulateSum(w)
       \/ accumulateDoubleHistogram(w)
       \/ accumulateSummary(w)
       \/ AccumulateReturn(w)
  \/ Collect
  \/ CollectRange
  \/ CollectDelete
  \/ CollectReturn
  \/ Tick

Spec == Init /\ [][Next]_vars

\* two goroutines call Accumulate with one metric, and Collect is not called
InitRace ==
  InitWith(Workers, {ms \in SUBSET Metrics : Cardinality(ms) = 1}, FALSE, NoSeen)

NextRace ==
  \/ \E w \in DOMAIN acc :
       \/ Accumulate(w)
       \/ addMetric(w)
       \/ accumulateGauge(w)
       \/ accumulateSum(w)
       \/ accumulateDoubleHistogram(w)
       \/ accumulateSummary(w)
       \/ AccumulateReturn(w)
  \/ Tick

SpecRace == InitRace /\ [][NextRace]_vars

\* one goroutine calls Accumulate, Collect is not called, and the datapoints
\* that were accumulated are recorded
InitSeq ==
  InitWith({"w1"}, {ms \in SUBSET Metrics : Cardinality(ms) \in 1..MaxSeries},
           FALSE, [on |-> TRUE, pts |-> {}])

SpecSeq == InitSeq /\ [][NextRace]_vars

\* one goroutine calls Accumulate with one metric, one calls Collect, and the
\* datapoints that were accumulated are recorded
InitEvict ==
  InitWith({"w1"},
           {ms \in SUBSET Metrics :
              Cardinality(ms) = 1 /\ \A m \in ms : Dispatched(m)},
           FALSE, [on |-> TRUE, pts |-> {}])

SpecEvict == InitEvict /\ [][Next]_vars

\* as Spec for a Gauge and a cumulative Sum, with the contents of the map
\* recorded during Collect
InitView ==
  InitWith({"w1"},
           {ms \in SUBSET Metrics :
              /\ Cardinality(ms) = 2
              /\ \A m \in ms : m.dataType \in {"Gauge", "Sum"} /\ Dispatched(m)},
           TRUE, NoSeen)

SpecView == InitView /\ [][Next]_vars

----------------------------------------------------------------------------
(* timeseriesSignature on its own *)

InitSig ==
  /\ registeredMetrics = {}
  /\ clock = 0
  /\ acc = [x \in {"w1"} |-> IdleAcc]
  /\ col = IdleCol
  /\ delivered = 0
  /\ series = {}
  /\ nonCumulative = {}
  /\ evicted = {}
  /\ watch = FALSE
  /\ hist = {}
  /\ sigIn \in SigInputs \X SigInputs
  /\ sigOut = <<>>
  /\ seen = NoSeen

\* the signatures of the two arguments are computed
Sign ==
  /\ sigOut = <<>>
  /\ sigOut' = << timeseriesSignature(sigIn[1].il, sigIn[1].metric, sigIn[1].attributes),
                  timeseriesSignature(sigIn[2].il, sigIn[2].metric, sigIn[2].attributes) >>
  /\ UNCHANGED <<registeredMetrics, clock, acc, col, delivered, series, nonCumulative,
                 evicted, watch, hist, sigIn, seen>>

NextSig == Sign

SpecSig == InitSig /\ [][NextSig]_vars

----------------------------------------------------------------------------
(* Properties *)

\* the signature of the datapoint goroutine w has loaded
SigOf(w) == acc[w].signature

\* this step is the store-or-drop step of goroutine w for a metric of this kind
StoreStep(w, kind) ==
  /\ acc[w].pc = "Loaded"
  /\ acc'[w].pc # "Loaded"
  /\ acc[w].metric.dataType = kind

\* Collect has passed every key and is about to return res
Collected == col.pc = "Range" /\ col.visited = Signatures(series)

\* the entry is expired for the Collect call in progress: its last update is
\* strictly before the boundary
Expired(p) == p[2].updated < col.expirationTime

ResultSet(res) == {res[i] : i \in 1..Len(res)}

\* C1: a Gauge datapoint that is processed with nothing changing the map
\* between its Load and its store step is stored as the entry of its
\* signature and counts 1 when the map has no entry for the signature or its
\* timestamp is later than or equal to the stored one; otherwise the map is
\* left as it was and the datapoint counts 0.
GaugeMergeRule ==
  [][\A w \in DOMAIN acc :
       (StoreStep(w, "Gauge") /\ acc[w].ld = MapLoad(registeredMetrics, SigOf(w))) =>
         LET cur == MapLoad(registeredMetrics, SigOf(w))
             new == MapLoad(registeredMetrics', SigOf(w))
         IN IF ~cur.ok \/ acc[w].ip.ts >= cur.v.value.dps[1].ts
            THEN /\ new.ok
                 /\ new.v.value.dps = <<acc[w].ip>>
                 /\ new.v.updated = acc[w].now
                 /\ MapDelete(registeredMetrics', SigOf(w)) =
                      MapDelete(registeredMetrics, SigOf(w))
                 /\ acc'[w].n = acc[w].n + 1
            ELSE /\ registeredMetrics' = registeredMetrics
                 /\ acc'[w].n = acc[w].n]_vars

\* a Gauge datapoint with the timestamp of the stored one has replaced it
GaugeMergeRuleWitness ==
  /\ \A m \in series : m.dataType = "Gauge"
  /\ col.pc = "idle" /\ evicted = {}
  /\ acc["w1"].did = "equal"
  /\ acc["w1"].n = 2
  /\ \E p \in registeredMetrics : p[2].value.dps[1].val = 2

\* C2: the datapoints of a Sum or Histogram metric that is not cumulative add
\* nothing to the count and leave the map as it was; no entry of the map and
\* no metric of a Collect result holds one of them.
NoNonCumulative ==
  /\ \A p \in registeredMetrics :
       \A i \in 1..Len(p[2].value.dps) : p[2].value.dps[i].val \notin nonCumulative
  /\ \A i \in 1..Len(col.res) : col.res[i].dps[1].val \notin nonCumulative

NonCumulativeDrop ==
  [][/\ nonCumulative' # nonCumulative =>
          /\ registeredMetrics' = registeredMetrics
          /\ \A w \in DOMAIN acc : acc'[w].n = acc[w].n /\ acc'[w].pc = acc[w].pc
     /\ NoNonCumulative']_vars

\* a delta Sum with two datapoints was accumulated and a Collect that
\* followed returned nothing
NonCumulativeDropWitness ==
  /\ \E m \in series : m.dataType = "Sum" /\ m.temporality = "Delta"
  /\ nonCumulative = {1, 2}
  /\ delivered = 2
  /\ registeredMetrics = {}
  /\ col.last # NoResult
  /\ col.last.res = <<>>

\* C3: a Collect call that no Accumulate call overlaps deletes the entries
\* whose last update is strictly before now - metricExpiration, keeps every
\* other entry, and returns the metrics of the entries it keeps, nothing else.
CollectPartition ==
  (Collected /\ col.alone) =>
    LET kept == {p \in col.start : ~Expired(p)}
    IN /\ registeredMetrics = kept
       /\ ResultSet(col.res) = {p[2].value : p \in kept}
       /\ Len(col.res) = Cardinality(kept)

\* such a Collect found one entry last updated at the boundary and one
\* before it
CollectPartitionWitness ==
  /\ Collected /\ col.alone
  /\ \E p \in col.start : p[2].updated = col.expirationTime
  /\ \E p \in col.start : p[2].updated < col.expirationTime

\* the Collect call in progress follows another that read the same clock
\* value, and no Accumulate call ran since that one began
Repeated ==
  /\ col.alone
  /\ col.last # NoResult
  /\ col.last.expirationTime = col.expirationTime

\* C4: a Collect call that follows another at the same clock value, with no
\* Accumulate call since the first began, returns the same set of metrics
\* and leaves the map as it was; a signature that Collect deleted is in no
\* entry and in no result until a policy stores it again.
CollectIdempotent ==
  /\ (Collected /\ Repeated) =>
       /\ ResultSet(col.res) = ResultSet(col.last.res)
       /\ registeredMetrics = col.start
  /\ evicted \cap MapKeys(registeredMetrics) = {}
  /\ \A i \in 1..Len(col.keys) : col.keys[i] \notin evicted

\* the second of two such calls, after the first deleted one entry and
\* returned another
CollectIdempotentWitness ==
  /\ Collected /\ Repeated
  /\ Len(col.res) = 1
  /\ evicted # {}

\* C5: the count of an Accumulate call is the number of its Store calls.
CountIsStored == \A w \in DOMAIN acc : acc[w].n = acc[w].stored

\* a call that stored one datapoint, dropped one as stale, and carried a
\* metric that is not cumulative
CountIsStoredWitness ==
  /\ acc["w1"].pc = "Accumulate"
  /\ acc["w1"].n = 1
  /\ acc["w1"].did = "stale"
  /\ nonCumulative # {}

\* C6: every store step of an Accumulate call, also one whose Load found no
\* entry while another call has stored one since, leaves exactly one entry
\* for the signature: the whole value of that step (its own datapoint alone,
\* its own time); so once two racing calls have finished the map holds the
\* value of the store step that ran last.
FirstInsertRace ==
  [][\A w \in DOMAIN acc :
       (acc[w].pc = "Loaded" /\ acc'[w].pc # "Loaded" /\ acc'[w].did # "stale") =>
         {p \in registeredMetrics' : p[1] = SigOf(w)} =
           {<<SigOf(w),
              [value |-> [name |-> acc[w].metric.name,
                          dataType |-> acc[w].metric.dataType,
                          temporality |-> (CHOOSE p \in registeredMetrics' :
                                             p[1] = SigOf(w))[2].value.temporality,
                          dps |-> <<acc[w].ip>>],
               instrumentationLibrary |-> acc[w].il,
               updated |-> acc[w].now]>>}]_vars

\* both calls carried one datapoint, found no entry and count 1
FirstInsertRaceWitness ==
  /\ Cardinality(DOMAIN acc) = 2
  /\ \A w \in DOMAIN acc :
       acc[w].pc = "Accumulate" /\ acc[w].did = "first" /\ acc[w].n = 1
  /\ Cardinality(registeredMetrics) = 1

\* C7 as claimed: at some instant of the Collect call the metrics it returns
\* are those of the entries of the map that are not expired.
PointInTimeView ==
  Collected =>
    \E h \in hist :
      ResultSet(col.res) = {p[2].value : p \in {q \in h : ~Expired(q)}}

\* C7: for every signature there is an instant of the Collect call at which
\* what the call returns for the signature is the entry the map holds for it,
\* if that is not expired, and nothing if there is none or it is expired.
PerKeyView ==
  Collected =>
    \A k \in Signatures(series) :
      \E h \in hist :
        {col.res[i] : i \in {j \in 1..Len(col.res) : col.keys[j] = k}} =
          {p[2].value : p \in {q \in h : q[1] = k /\ ~Expired(q)}}

\* a Collect returns two metrics that the map held at no one instant
PerKeyViewWitness ==
  /\ Collected
  /\ Len(col.res) = 2
  /\ ~\E h \in hist :
        ResultSet(col.res) = {p[2].value : p \in {q \in h : ~Expired(q)}}

\* C8: every Histogram metric in the map has cumulative temporality.
HistogramCumulative ==
  \A p \in registeredMetrics :
    p[2].value.dataType = "Histogram" => p[2].value.temporality = "Cumulative"

\* the label set of an attribute map
LabelSet(at) == {<<at[i][1], at[i][2]>> : i \in 1..Len(at)}

\* kind, scope name, metric name and label set are the same
SameSeries(x, y) ==
  /\ x.metric.dataType = y.metric.dataType
  /\ x.il = y.il
  /\ x.metric.name = y.metric.name
  /\ LabelSet(x.attributes) = LabelSet(y.attributes)

HasDelimiter(str) == \E i \in 1..Len(str) : str[i] = "*"

\* no string of the argument contains the delimiter
Plain(x) ==
  /\ ~HasDelimiter(x.il)
  /\ ~HasDelimiter(x.metric.name)
  /\ \A i \in 1..Len(x.attributes) :
       /\ ~HasDelimiter(x.attributes[i][1])
       /\ ~HasDelimiter(x.attributes[i][2].stringVal)

\* C9 as claimed: arguments that differ in kind, scope name, metric name or
\* label set have different signatures.
SignatureInjective ==
  (sigOut # <<>> /\ ~SameSeries(sigIn[1], sigIn[2])) => sigOut[1] # sigOut[2]

\* C9: they have different signatures when no scope name, metric name, label
\* key or label value contains the delimiter.
SignatureInjectivePlain ==
  (sigOut # <<>> /\ Plain(sigIn[1]) /\ Plain(sigIn[2])
     /\ ~SameSeries(sigIn[1], sigIn[2])) => sigOut[1] # sigOut[2]

\* two arguments without the delimiter that differ in one label value only
SignatureInjectivePlainWitness ==
  /\ sigOut # <<>>
  /\ Plain(sigIn[1]) /\ Plain(sigIn[2])
  /\ sigIn[1].metric = sigIn[2].metric /\ sigIn[1].il = sigIn[2].il
  /\ Len(sigIn[1].attributes) = 2 /\ Len(sigIn[2].attributes) = 2
  /\ sigIn[1].attributes[1] = sigIn[2].attributes[1]
  /\ sigIn[1].attributes[2][1] = sigIn[2].attributes[2][1]
  /\ sigIn[1].attributes[2][2] # sigIn[2].attributes[2][2]
  /\ sigOut[1] # sigOut[2]

\* C10: arguments with the same kind, scope name, metric name and label set
\* have the same signature, whatever the insertion order of the labels.
SignatureStable ==
  (sigOut # <<>> /\ SameSeries(sigIn[1], sigIn[2])) => sigOut[1] = sigOut[2]

\* two labels inserted in the two orders
SignatureStableWitness ==
  /\ sigOut # <<>>
  /\ SameSeries(sigIn[1], sigIn[2])
  /\ Len(sigIn[1].attributes) = 2
  /\ sigIn[1].attributes # sigIn[2].attributes
  /\ sigOut[1] = sigOut[2]

\* a Gauge and a Sum with the same name
Twins(g, s) ==
  g.dataType = "Gauge" /\ s.dataType = "Sum" /\ g.name = s.name

\* C11: a Gauge and a cumulative Sum with the same scope name, metric name
\* and label set have different signatures: the signature of a datapoint is
\* that of no entry of another kind, and its store-or-drop step leaves every
\* entry of another kind as it was; and a
\* Collect call that no Accumulate call overlaps, which finds the entries of
\* both with neither expired, returns both.
CrossKindIsolation ==
  [][/\ \A w \in DOMAIN acc :
          (acc[w].pc = "Loaded" /\ acc'[w].pc # "Loaded") =>
            \A p \in registeredMetrics :
              p[2].value.dataType # acc[w].metric.dataType =>
                /\ p[1] # SigOf(w)
                /\ p \in registeredMetrics'
     /\ (col.alone /\ Collected) =>
          \A p \in col.start, q \in col.start :
            (Twins(p[2].value, q[2].value) /\ ~Expired(p) /\ ~Expired(q)) =>
              {p[2].value, q[2].value} \subseteq ResultSet(col.res)]_vars

\* a Gauge datapoint was stored, then a Sum datapoint, then a second Gauge
\* datapoint replaced the first, and a Collect returned the two entries
CrossKindIsolationWitness ==
  /\ Collected /\ col.alone
  /\ \E g \in ResultSet(col.res), s \in ResultSet(col.res) :
       /\ Twins(g, s)
       /\ g.dps[1].val = 3
       /\ s.dps[1].val = 2

\* C12: a metric of a kind other than Gauge, Sum, Histogram and Summary adds
\* nothing to the count of the call and leaves the map as it was, and the
\* call goes on with the loop over the metrics of the batch, from which it
\* takes the next metric or returns.
UnsupportedKind ==
  [][\A w \in DOMAIN acc :
       (/\ acc[w].pc = "Accumulate"
        /\ acc'[w].did = "unsupported"
        /\ (acc'[w] # acc[w] \/ delivered' # delivered)) =>
         /\ registeredMetrics' = registeredMetrics
         /\ acc'[w].n = acc[w].n
         /\ acc'[w].stored = acc[w].stored
         /\ acc'[w].pc = "Accumulate"]_vars

\* a call stored a datapoint, then met a metric of another kind with one
\* datapoint, and is back in its loop with count 1
UnsupportedKindWitness ==
  /\ acc["w1"].pc = "Accumulate"
  /\ acc["w1"].did = "unsupported"
  /\ acc["w1"].n = 1
  /\ delivered = 2
  /\ Cardinality(registeredMetrics) = 1

\* C13: the map holds at most one entry for a signature, the metric of every
\* entry holds one datapoint, and so does every metric Collect returns.
OneEntryOneDatapoint ==
  /\ \A p \in registeredMetrics, q \in registeredMetrics : p[1] = q[1] => p = q
  /\ \A p \in registeredMetrics : Len(p[2].value.dps) = 1
  /\ \A i \in 1..Len(col.res) : Len(col.res[i].dps) = 1

\* an Accumulate call is at the third datapoint of a metric, after it stored
\* the first two, while a Collect call has taken the entry into its result
OneEntryOneDatapointWitness ==
  /\ acc["w1"].pc = "DataPoints"
  /\ acc["w1"].left = 1
  /\ acc["w1"].stored = 2
  /\ acc["w1"].did = "later"
  /\ col.pc = "Range"
  /\ Len(col.res) = 1
  /\ Cardinality(registeredMetrics) = 1

\* C14: the Delete of a Collect call removes no entry whose last update is
\* not strictly before the boundary of that call.
DeleteOnlyExpired ==
  [][(col.pc = "Delete" /\ col'.pc # "Delete") =>
       \A p \in registeredMetrics \ registeredMetrics' : Expired(p)]_vars

\* the datapoints accumulated for signature k
SeenFor(k) == {x[2] : x \in {y \in seen.pts : y[1] = k}}

\* the datapoint of the greatest timestamp, the last one accumulated among
\* those of that timestamp (the value of a datapoint is its rank of arrival)
Greatest(pts) ==
  CHOOSE x \in pts : \A y \in pts : y.ts < x.ts \/ (y.ts = x.ts /\ y.val <= x.val)

\* C15: when Accumulate calls do not overlap and no entry is deleted, the
\* datapoint stored for a signature is the one of the greatest timestamp among
\* those accumulated for it, and the last accumulated among several of that
\* timestamp.
GreatestTimestampWins ==
  \A k \in {x[1] : x \in seen.pts} :
    LET ld == MapLoad(registeredMetrics, k)
    IN /\ ld.ok
       /\ ld.v.value.dps = <<Greatest(SeenFor(k))>>

\* one batch brought three datapoints of one signature: timestamp 2, then 1,
\* then 2 again, and the third is the one stored
GreatestTimestampWinsWitness ==
  /\ seen.on
  /\ acc["w1"].pc = "Accumulate"
  /\ acc["w1"].n = 2
  /\ \E k \in MapKeys(registeredMetrics) :
       /\ {<<x.val, x.ts>> : x \in SeenFor(k)} = {<<1, 2>>, <<2, 1>>, <<3, 2>>}
       /\ MapLoad(registeredMetrics, k).v.value.dps[1].val = 3

\* C16: the policies of a cumulative Sum, a cumulative Histogram and a Summary
\* decide as the Gauge policy does on the same Load and datapoint: when there
\* is no entry or the incoming timestamp is not earlier than the stored one
\* they store the datapoint and count 1, otherwise they leave the map and the
\* count as they were.
PoliciesAgree ==
  [][\A w \in DOMAIN acc : \A kind \in {"Sum", "Histogram", "Summary"} :
       StoreStep(w, kind) =>
         LET ip == acc[w].ip
             ld == acc[w].ld
             stores == ~ld.ok \/ ip.ts >= ld.v.value.dps[1].ts
             new == MapLoad(registeredMetrics', SigOf(w))
         IN /\ stores = ~GaugeStale(ip, ld)
            /\ IF stores
               THEN /\ new.ok
                    /\ new.v.value.dps = <<ip>>
                    /\ acc'[w].n = acc[w].n + 1
               ELSE /\ registeredMetrics' = registeredMetrics
                    /\ acc'[w].n = acc[w].n]_vars

\* a call stored a Summary datapoint, replaced it by a second and dropped a
\* third of an earlier timestamp
PoliciesAgreeWitness ==
  /\ \A m \in series : m.dataType = "Summary"
  /\ acc["w1"].pc = "Accumulate"
  /\ acc["w1"].did = "stale"
  /\ acc["w1"].n = 2
  /\ \E p \in registeredMetrics :
       p[2].value.dps[1].val = 2 /\ p[2].value.dps[1].ts = 2

\* C17: a datapoint whose Load finds no entry for its signature because
\* Collect deleted it is stored and counts 1 whatever its timestamp, and the
\* last update of the new entry is the time the Accumulate call read.
RecreatedAfterEviction ==
  [][\A w \in DOMAIN acc :
       (/\ acc[w].pc = "Loaded" /\ acc'[w].pc # "Loaded"
        /\ SigOf(w) \in evicted
        /\ ~acc[w].ld.ok) =>
         LET new == MapLoad(registeredMetrics', SigOf(w))
         IN /\ new.ok
            /\ new.v.value.dps = <<acc[w].ip>>
            /\ new.v.updated = acc[w].now
            /\ acc'[w].n = acc[w].n + 1
            /\ SigOf(w) \notin evicted']_vars

\* the entry of a datapoint of timestamp 2 was deleted, and a datapoint of
\* timestamp 1 accumulated at time 2 made the entry anew
RecreatedAfterEvictionWitness ==
  /\ acc["w1"].did = "first"
  /\ acc["w1"].now = 2
  /\ acc["w1"].n = 1
  /\ \E p \in registeredMetrics :
       /\ p[2].value.dps[1].val = 2 /\ p[2].value.dps[1].ts = 1
       /\ p[2].updated = 2
       /\ \E x \in SeenFor(p[1]) : x.val = 1 /\ x.ts = 2

\* C18: a step that is not the Delete of Collect removes no signature from
\* the map; a step of an Accumulate call that stores a datapoint changes no
\* entry but that of its signature, and every other step of the call leaves
\* the map as it was.
OnlyCollectRemoves ==
  [][/\ (col.pc # "Delete" \/ col'.pc = "Delete") =>
          MapKeys(registeredMetrics) \subseteq MapKeys(registeredMetrics')
     /\ \A w \in DOMAIN acc :
          acc'[w] # acc[w] =>
            IF acc'[w].stored # acc[w].stored
            THEN MapDelete(registeredMetrics', SigOf(w)) =
                   MapDelete(registeredMetrics, SigOf(w))
            ELSE registeredMetrics' = registeredMetrics]_vars

\* an Accumulate call replaced the entry of one signature while the map held
\* the entry of another
OnlyCollectRemovesWitness ==
  /\ Cardinality(registeredMetrics) = 2
  /\ acc["w1"].did \in {"equal", "later"}
  /\ col.pc = "idle"
  /\ evicted = {}

\* C19: a datapoint whose timestamp is earlier than that of the entry it
\* loaded leaves the map and the count as they were; the last update of an
\* entry is the time read by the call that stored the datapoint it holds,
\* whatever was dropped since; and a Collect call that no Accumulate call
\* overlaps removes every entry whose last update is before its boundary.
StaleLeavesEntry ==
  [][/\ \A w \in DOMAIN acc :
          (/\ acc[w].pc = "Loaded" /\ acc'[w].pc # "Loaded"
           /\ acc[w].ld.ok
           /\ acc[w].ip.ts < acc[w].ld.v.value.dps[1].ts) =>
            /\ registeredMetrics' = registeredMetrics
            /\ acc'[w].n = acc[w].n
     /\ \A p \in registeredMetrics :
          \E x \in seen.pts :
            x[1] = p[1] /\ <<x[2]>> = p[2].value.dps /\ x[3] = p[2].updated
     /\ (col.alone /\ Collected) =>
          \A p \in col.start :
            p[2].updated < col.expirationTime =>
              /\ p[1] \notin MapKeys(registeredMetrics)
              /\ p[2].value \notin ResultSet(col.res)]_vars

\* a datapoint was stored at time 0, a stale one for its signature was
\* dropped at time 2, and the Collect that followed at time 2 deleted the entry
StaleLeavesEntryWitness ==
  /\ col.alone /\ Collected
  /\ col.expirationTime = 1
  /\ registeredMetrics = {}
  /\ col.res = <<>>
  /\ \E k \in evicted :
       {<<x[2].val, x[2].ts, x[3]>> : x \in {y \in seen.pts : y[1] = k}} =
         {<<1, 2, 0>>, <<2, 1, 2>>}

\* C20: while the entry of a signature stays in the map, no step makes the
\* timestamp of its datapoint or its last update earlier than it was.
NeverEarlier ==
  [][\A p \in registeredMetrics, q \in registeredMetrics' :
       p[1] = q[1] =>
         /\ q[2].value.dps[1].ts >= p[2].value.dps[1].ts
         /\ q[2].updated >= p[2].updated]_vars

====
